---- MODULE Spec2Model ----
(***************************************************************************)
(* LSB steganography tool (challenges/01_steganography).                   *)
(*                                                                         *)
(* The model follows one invocation of the tool at a time: the argparse    *)
(* driver of main.py or the interactive driver of steganography.py calls   *)
(* ImageSteganography.encode or ImageSteganography.decode on an image      *)
(* file.  After a successful encode a second invocation may decode the     *)
(* file that was written.  A pixel is a tuple of channel values, an image  *)
(* is its size, its number of bands and its row-major pixel data, a text   *)
(* is a sequence of code points and a binary string is a sequence of the   *)
(* one-character strings "0" and "1".                                      *)
(***************************************************************************)
EXTENDS Integers, Sequences, FiniteSets, TLC

(* ------------------------------ bounds -------------------------------- *)
MaxPixels == 6
MaxText == 2

(* ------------------------- program constants -------------------------- *)
BITS_PER_CHAR == 8
MaxChannel == 255

(* ------------------------------ inputs -------------------------------- *)
\* code points offered as message characters: NUL, space, "A", U+00FF and
\* U+012C (the last one does not fit in 8 bits)
Chars == {0, 32, 65, 255, 300}

Texts == UNION {[1..n -> Chars] : n \in 0..MaxText}

\* the pixels image files are made of, for 3-band (RGB) and 4-band (RGBA)
\* images; the channel values cover both parities and both ends of 0..255
PixelChoices(bands) ==
  IF bands = 3 THEN {<<0, 255, 254>>, <<1, 254, 255>>}
  ELSE {<<0, 255, 254, 128>>, <<1, 254, 255, 7>>}

\* the sizes (width, height) of the image files: every size of at most
\* MaxPixels pixels, and the empty image
Sizes ==
  {s \in (0..MaxPixels) \X (0..MaxPixels) :
     /\ s[1] * s[2] <= MaxPixels
     /\ (s[1] = 0) <=> (s[2] = 0)}

Images ==
  UNION {UNION {{[w |-> s[1], h |-> s[2], bands |-> b, data |-> d] :
                    d \in [1..(s[1] * s[2]) -> PixelChoices(b)]} :
                b \in {3, 4}} :
         s \in Sizes}

NoImage == [w |-> 0, h |-> 0, bands |-> 0, data |-> <<>>]
NoRc == -1

VARIABLES
  entry,           \* which script runs: "main.py" or "steganography.py"
  command,         \* "encode" or "decode"
  path,            \* the file a decode reads: "input" or "output"
  pc,              \* position of the run
  input_file,      \* the carrier image on disk
  output_file,     \* the image encode saved, NoImage if none
  text,            \* the text given to encode
  image,           \* Image.open(image_path)
  encoded_image,   \* image.copy(), the image putpixel writes to
  pixels,          \* list(encoded_image.getdata())
  consumed,        \* pixels taken from pixel_iterator
  char_index,      \* loop index of modify_pixels_for_encoding
  x, y,            \* write cursor of encode
  modified_pixels, \* the tuples modify_pixels_for_encoding has yielded
  decoded_text,    \* accumulator of decode
  returned,        \* decode returned a value
  returned_text,   \* the value decode returned
  err,             \* kind of the SteganographyError raised, "none" if none
  rc,              \* return value of handle_encode / handle_decode
  exit_code,       \* exit status of the process
  v, bit, out, out_bit, applied   \* the single-bit embedding applied alone

vars == <<entry, command, path, pc, input_file, output_file, text, image,
          encoded_image, pixels, consumed, char_index, x, y, modified_pixels,
          decoded_text, returned, returned_text, err, rc, exit_code,
          v, bit, out, out_bit, applied>>

bitVars == <<v, bit, out, out_bit, applied>>
runVars == <<entry, command, path, pc, input_file, output_file, text, image,
             encoded_image, pixels, consumed, char_index, x, y,
             modified_pixels, decoded_text, returned, returned_text, err, rc,
             exit_code>>

(* --------------------------- bit packing ------------------------------ *)
RECURSIVE bin(_)
\* the binary digits of n, most significant first, without padding
bin(n) == IF n < 2 THEN <<IF n = 1 THEN "1" ELSE "0">>
          ELSE Append(bin(n \div 2), IF n % 2 = 1 THEN "1" ELSE "0")

\* format08b padding on the right (format(n, "<08b"))
format08b_left_aligned(n) ==
  LET d == bin(n)
  IN IF Len(d) >= 8 THEN d ELSE d \o [i \in 1..(8 - Len(d)) |-> "0"]

\* format(n, "08b"): zero-padded to a minimum width of 8, never truncated
format08b(n) ==
  LET d == bin(n)
  IN IF Len(d) >= 8 THEN d ELSE [i \in 1..(8 - Len(d)) |-> "0"] \o d

text_to_binary(t) == [i \in 1..Len(t) |-> format08b(t[i])]

\* make_even stepping an odd value up instead of down
make_even_up(value) == IF value % 2 # 0 THEN value + 1 ELSE value

make_even(value) == IF value % 2 # 0 THEN value - 1 ELSE value

make_odd(value) ==
  IF value % 2 = 0
    THEN (IF value < MaxChannel THEN value + 1 ELSE value - 1)
    ELSE value

encode_bit_in_value(value, b) ==
  IF b = "0" THEN make_even(value) ELSE make_odd(value)

extract_bit_from_value(value) == IF value % 2 # 0 THEN "1" ELSE "0"

RECURSIVE int2_lsb_first(_)
\* int2 reading the least significant bit first
int2_lsb_first(s) ==
  IF Len(s) = 0 THEN 0
  ELSE 2 * int2_lsb_first(SubSeq(s, 2, Len(s)))
       + (IF s[1] = "1" THEN 1 ELSE 0)

RECURSIVE int2(_)
\* int(binary_string, 2)
int2(s) == IF Len(s) = 0 THEN 0
           ELSE 2 * int2(SubSeq(s, 1, Len(s) - 1))
                + (IF s[Len(s)] = "1" THEN 1 ELSE 0)

\* list(pixel1[:3]) + list(pixel2[:3]) + list(pixel3[:3])
color_values_of(p1, p2, p3) ==
  SubSeq(p1, 1, 3) \o SubSeq(p2, 1, 3) \o SubSeq(p3, 1, 3)

(* ------------------------- the image library -------------------------- *)
\* the ink putpixel stores for a tuple: an image with an alpha band given a
\* 3-tuple gets full opacity for the missing band
getink(bands, value) ==
  IF Len(value) < bands THEN value \o [i \in 1..(bands - Len(value)) |-> 255]
  ELSE SubSeq(value, 1, bands)

\* putpixel with the coordinates taken as (y, x)
putpixel_transposed(img, xy, value) ==
  [img EXCEPT !.data[xy[1] * img.w + xy[2] + 1] = getink(img.bands, value)]

\* encoded_image.putpixel((x, y), pixel) on row-major data
putpixel(img, xy, value) ==
  [img EXCEPT !.data[xy[2] * img.w + xy[1] + 1] = getink(img.bands, value)]

\* x += 1; if x >= width: x = 0; y += 1
next_position(xy, width) ==
  IF xy[1] + 1 >= width THEN <<0, xy[2] + 1>> ELSE <<xy[1] + 1, xy[2]>>

(* ------------------------------ encode -------------------------------- *)
\* validate_image_capacity comparing with <= instead of <
image_too_small_or_equal(img, t) == img.w * img.h <= Len(t) * 3

\* validate_image_capacity raises
image_too_small(img, t) == img.w * img.h < Len(t) * 3

\* is_last_char comparing with num_chars instead of num_chars - 1
is_last_char_off_by_one(index, num_chars) == index = num_chars

is_last_char(index, num_chars) == index = num_chars - 1

\* one iteration of the loop of modify_pixels_for_encoding: the three tuples
\* yielded for binary_char from the three pixels taken from the iterator
modify_group(p1, p2, p3, binary_char, last) ==
  LET cv  == color_values_of(p1, p2, p3)
      new == [i \in 1..9 |->
                IF i <= BITS_PER_CHAR
                  THEN encode_bit_in_value(cv[i], binary_char[i])
                  ELSE IF last THEN make_odd(cv[9]) ELSE make_even(cv[9])]
  IN <<SubSeq(new, 1, 3), SubSeq(new, 4, 6), SubSeq(new, 7, 9)>>

\* python's str.isspace for one code point
isspace(c) ==
  c \in (9..13) \cup (28..32) \cup {133, 160, 5760} \cup (8192..8202)
        \cup {8232, 8233, 8239, 8287, 12288}

\* not text.strip()
strip_is_empty(t) == \A i \in 1..Len(t) : isspace(t[i])

(* ------------------------------ decode -------------------------------- *)
\* the character decode reads from one group of three pixels
decode_char(p1, p2, p3) ==
  LET cv == color_values_of(p1, p2, p3)
  IN int2([i \in 1..BITS_PER_CHAR |-> extract_bit_from_value(cv[i])])

\* stop_flag reading color_values[7] instead of color_values[8]
stop_flag_wrong_index(p1, p2, p3) == color_values_of(p1, p2, p3)[8] % 2 # 0

\* if color_values[8] % 2 != 0: break
stop_flag(p1, p2, p3) == color_values_of(p1, p2, p3)[9] % 2 # 0

(* ------------------------------- runs --------------------------------- *)
\* the file at image_path
file_at(p) == IF p = "input" THEN input_file ELSE output_file

\* the status the process ends with: both scripts end with a bare main(),
\* so the value main() returns is dropped
exit_status(code) == 0

Init ==
  /\ entry \in {"main.py", "steganography.py"}
  /\ command \in {"encode", "decode"}
  /\ path = "input"
  /\ pc = "start"
  /\ input_file \in Images
  /\ output_file = NoImage
  /\ text \in (IF command = "encode" THEN Texts ELSE {<<>>})
  /\ image = NoImage
  /\ encoded_image = NoImage
  /\ pixels = <<>>
  /\ consumed = 0
  /\ char_index = 0
  /\ x = 0
  /\ y = 0
  /\ modified_pixels = <<>>
  /\ decoded_text = <<>>
  /\ returned = FALSE
  /\ returned_text = <<>>
  /\ err = "none"
  /\ rc = NoRc
  /\ exit_code = NoRc
  /\ v = 0 /\ bit = "0" /\ out = 0 /\ out_bit = "0" /\ applied = FALSE

\* handle_encode up to the call of stego.encode; the interactive driver
\* calls encode with whatever was typed
HandleEncode ==
  /\ pc = "start"
  /\ command = "encode"
  /\ IF entry = "main.py" /\ strip_is_empty(text)
       THEN pc' = "returned" /\ rc' = 1
       ELSE pc' = "encode" /\ rc' = rc
  /\ UNCHANGED <<entry, command, path, input_file, output_file, text, image,
                 encoded_image, pixels, consumed, char_index, x, y,
                 modified_pixels, decoded_text, returned, returned_text, err,
                 exit_code>>
  /\ UNCHANGED bitVars

\* encode up to the loop: the empty-text check, Image.open (which the file
\* system may fail), validate_image_capacity, image.copy() and getdata()
EncodeBegin ==
  /\ pc = "encode"
  /\ \E open_ok \in BOOLEAN :
       IF Len(text) = 0 THEN
         /\ err' = "empty" /\ pc' = "raised"
         /\ UNCHANGED <<image, encoded_image, pixels>>
       ELSE IF ~open_ok THEN
         /\ err' = "open" /\ pc' = "raised"
         /\ UNCHANGED <<image, encoded_image, pixels>>
       ELSE IF image_too_small(file_at("input"), text) THEN
         /\ err' = "capacity" /\ pc' = "raised"
         /\ image' = file_at("input")
         /\ UNCHANGED <<encoded_image, pixels>>
       ELSE
         /\ err' = err /\ pc' = "encoding"
         /\ image' = file_at("input")
         /\ encoded_image' = file_at("input")
         /\ pixels' = file_at("input").data
  /\ consumed' = 0 /\ char_index' = 0 /\ x' = 0 /\ y' = 0
  /\ modified_pixels' = <<>>
  /\ UNCHANGED <<entry, command, path, input_file, output_file, text,
                 decoded_text, returned, returned_text, rc, exit_code>>
  /\ UNCHANGED bitVars

\* one character: modify_pixels_for_encoding takes three pixels and yields
\* three tuples, and the loop of encode writes each at the cursor
EncodeChar ==
  /\ pc = "encoding"
  /\ char_index < Len(text)
  /\ IF Len(pixels) - consumed < 3 THEN
       /\ err' = "capacity" /\ pc' = "raised"
       /\ consumed' = Len(pixels)
       /\ UNCHANGED <<encoded_image, char_index, x, y, modified_pixels>>
     ELSE
       LET ys == modify_group(pixels[consumed + 1], pixels[consumed + 2],
                              pixels[consumed + 3],
                              text_to_binary(text)[char_index + 1],
                              is_last_char(char_index, Len(text)))
           xy0 == <<x, y>>
           xy1 == next_position(xy0, encoded_image.w)
           xy2 == next_position(xy1, encoded_image.w)
           xy3 == next_position(xy2, encoded_image.w)
       IN /\ encoded_image' =
               putpixel(putpixel(putpixel(encoded_image, xy0, ys[1]),
                                 xy1, ys[2]), xy2, ys[3])
          /\ x' = xy3[1] /\ y' = xy3[2]
          /\ modified_pixels' = modified_pixels \o ys
          /\ consumed' = consumed + 3
          /\ char_index' = char_index + 1
          /\ UNCHANGED <<err, pc>>
  /\ UNCHANGED <<entry, command, path, input_file, output_file, text, image,
                 pixels, decoded_text, returned, returned_text, rc,
                 exit_code>>
  /\ UNCHANGED bitVars

\* encoded_image.save(output_path), which the file system may fail
EncodeSave ==
  /\ pc = "encoding"
  /\ char_index = Len(text)
  /\ \E save_ok \in BOOLEAN :
       IF save_ok
         THEN output_file' = encoded_image /\ err' = err /\ pc' = "returned"
         ELSE output_file' = output_file /\ err' = "save" /\ pc' = "raised"
  /\ UNCHANGED <<entry, command, path, input_file, text, image, encoded_image,
                 pixels, consumed, char_index, x, y, modified_pixels,
                 decoded_text, returned, returned_text, rc, exit_code>>
  /\ UNCHANGED bitVars

\* decode up to the loop: Image.open and iter(image.getdata())
DecodeBegin ==
  /\ pc = "start"
  /\ command = "decode"
  /\ \E open_ok \in BOOLEAN :
       IF open_ok
         THEN /\ image' = file_at(path) /\ pixels' = file_at(path).data
              /\ err' = err /\ pc' = "decoding"
         ELSE /\ err' = "open" /\ pc' = "raised"
              /\ UNCHANGED <<image, pixels>>
  /\ consumed' = 0
  /\ decoded_text' = <<>>
  /\ UNCHANGED <<entry, command, path, input_file, output_file, text,
                 encoded_image, char_index, x, y, modified_pixels, returned,
                 returned_text, rc, exit_code>>
  /\ UNCHANGED bitVars

\* one iteration of the loop of decode
DecodeGroup ==
  /\ pc = "decoding"
  /\ IF Len(pixels) - consumed < 3 THEN
       /\ err' = "truncated" /\ pc' = "raised"
       /\ consumed' = Len(pixels)
       /\ UNCHANGED <<decoded_text, returned, returned_text>>
     ELSE
       LET p1 == pixels[consumed + 1]
           p2 == pixels[consumed + 2]
           p3 == pixels[consumed + 3]
           t  == Append(decoded_text, decode_char(p1, p2, p3))
       IN /\ decoded_text' = t
          /\ consumed' = consumed + 3
          /\ IF stop_flag(p1, p2, p3)
               THEN returned' = TRUE /\ returned_text' = t /\ pc' = "returned"
               ELSE UNCHANGED <<returned, returned_text, pc>>
          /\ err' = err
  /\ UNCHANGED <<entry, command, path, input_file, output_file, text, image,
                 encoded_image, pixels, char_index, x, y, modified_pixels, rc,
                 exit_code>>
  /\ UNCHANGED bitVars

\* the driver's except clauses and return, and the end of the process
Exit ==
  /\ pc \in {"raised", "returned"}
  /\ pc' = "exited"
  /\ rc' = IF entry = "main.py"
             THEN (IF pc = "raised" THEN 1 ELSE IF rc = NoRc THEN 0 ELSE rc)
             ELSE NoRc
  /\ exit_code' = exit_status(rc')
  /\ UNCHANGED <<entry, command, path, input_file, output_file, text, image,
                 encoded_image, pixels, consumed, char_index, x, y,
                 modified_pixels, decoded_text, returned, returned_text, err>>
  /\ UNCHANGED bitVars

\* a second invocation: decode the file a successful encode has written
DecodeOutput ==
  /\ pc = "exited"
  /\ command = "encode"
  /\ output_file # NoImage
  /\ command' = "decode"
  /\ path' = "output"
  /\ pc' = "start"
  /\ err' = "none"
  /\ rc' = NoRc
  /\ exit_code' = NoRc
  /\ consumed' = 0
  /\ UNCHANGED <<entry, input_file, output_file, text, image, encoded_image,
                 pixels, char_index, x, y, modified_pixels, decoded_text,
                 returned, returned_text>>
  /\ UNCHANGED bitVars

Next ==
  \/ HandleEncode
  \/ EncodeBegin
  \/ EncodeChar
  \/ EncodeSave
  \/ DecodeBegin
  \/ DecodeGroup
  \/ Exit
  \/ DecodeOutput

Spec == Init /\ [][Next]_vars

(* ---------------- the single-bit embedding on its own ------------------ *)
InitBit ==
  /\ v \in 0..MaxChannel
  /\ bit \in {"0", "1"}
  /\ out = 0 /\ out_bit = "0" /\ applied = FALSE
  /\ entry = "main.py" /\ command = "encode" /\ path = "input"
  /\ pc = "bit"
  /\ input_file = NoImage /\ output_file = NoImage /\ text = <<>>
  /\ image = NoImage /\ encoded_image = NoImage /\ pixels = <<>>
  /\ consumed = 0 /\ char_index = 0 /\ x = 0 /\ y = 0
  /\ modified_pixels = <<>> /\ decoded_text = <<>>
  /\ returned = FALSE /\ returned_text = <<>>
  /\ err = "none" /\ rc = NoRc /\ exit_code = NoRc

\* color_values[i] = encode_bit_in_value(color_values[i], bit), read back
\* with extract_bit_from_value
EncodeBit ==
  /\ pc = "bit"
  /\ ~applied
  /\ out' = encode_bit_in_value(v, bit)
  /\ out_bit' = extract_bit_from_value(out')
  /\ applied' = TRUE
  /\ UNCHANGED <<v, bit>>
  /\ UNCHANGED runVars

NextBit == EncodeBit

SpecBit == InitBit /\ [][NextBit]_vars

(* ============================ properties ============================== *)
\* every character of t fits in 8 bits
Supported(t) == \A i \in 1..Len(t) : t[i] \in 0..255

\* encode was called and has ended (the argparse driver does not call it for
\* a text that is empty after strip)
EncodeEnded ==
  /\ command = "encode"
  /\ pc \in {"raised", "returned", "exited"}
  /\ ~(entry = "main.py" /\ strip_is_empty(text))

\* decode was called and has ended with the image opened
DecodeEnded ==
  /\ command = "decode"
  /\ pc \in {"raised", "returned", "exited"}
  /\ err # "open"

\* the 9th value of group g of pixel data d
Flag(d, g) == d[3 * g][3]

\* the j-th of the 9 values of group g of pixel data d
GroupValue(d, g, j) == d[3 * (g - 1) + ((j - 1) \div 3) + 1][((j - 1) % 3) + 1]

\* the code point whose bits, most significant first, are the parities of
\* the first 8 values of group g
GroupCode(d, g) ==
    128 * (GroupValue(d, g, 1) % 2) + 64 * (GroupValue(d, g, 2) % 2)
  +  32 * (GroupValue(d, g, 3) % 2) + 16 * (GroupValue(d, g, 4) % 2)
  +   8 * (GroupValue(d, g, 5) % 2) +  4 * (GroupValue(d, g, 6) % 2)
  +   2 * (GroupValue(d, g, 7) % 2) +      (GroupValue(d, g, 8) % 2)

\* the complete groups of d whose 9th value is odd
OddGroups(d) == {g \in 1..(Len(d) \div 3) : Flag(d, g) % 2 = 1}

FirstOddGroup(d) == CHOOSE g \in OddGroups(d) : \A k \in OddGroups(d) : g <= k

\* C1: decoding the file written by a successful encode of a text whose
\* characters are all in 0..255 returns exactly that text.
C1_RoundTrip ==
  (DecodeEnded /\ path = "output" /\ Supported(text))
    => (err = "none" /\ returned /\ returned_text = text)

C1_Witness ==
  /\ DecodeEnded /\ path = "output" /\ pc = "returned"
  /\ text = <<255, 65>>
  /\ returned_text = text
  /\ input_file.bands = 4

\* C2: a text with a character above 255 is rejected by encode and no
\* encoded image is written.
C2_OverLengthRejected ==
  (\E i \in 1..Len(text) : text[i] > 255) => output_file = NoImage

\* C3: for a non-empty text of supported characters, encode (the image file
\* being readable and writable) succeeds exactly when the image has at
\* least 3*len(text) pixels, and fails with the capacity error otherwise.
C3_CapacityBoundary ==
  (EncodeEnded /\ Len(text) > 0 /\ Supported(text) /\ err \notin {"open", "save"})
    => /\ (err = "none" /\ output_file # NoImage)
            <=> Len(input_file.data) >= 3 * Len(text)
       /\ Len(input_file.data) = 3 * Len(text) => err = "none"
       /\ Len(input_file.data) = 3 * Len(text) - 1 => err = "capacity"
       /\ Len(input_file.data) < 3 * Len(text)
            => (err = "capacity" /\ output_file = NoImage)

C3_Witness ==
  /\ EncodeEnded /\ Supported(text) /\ Len(text) = 2
  /\ Len(input_file.data) = 3 * Len(text)
  /\ err = "none" /\ output_file # NoImage

\* C4: every tuple encode emits has as many channels as the input pixel at
\* its position and the same values in the channels after the third.
C4_ChannelPassThrough ==
  \A i \in 1..Len(modified_pixels) :
     /\ Len(modified_pixels[i]) = Len(input_file.data[i])
     /\ \A c \in 4..Len(input_file.data[i]) :
           modified_pixels[i][c] = input_file.data[i][c]

\* C5: the argparse tool exits with 0 when encode or decode succeeded and
\* with a non-zero status when the codec raised an error.
C5_CliExitCode ==
  (entry = "main.py" /\ pc = "exited")
    => /\ (err = "none" /\ rc = 0) => exit_code = 0
       /\ err # "none" => exit_code # 0

\* C6: in the image written by a successful encode of n characters the 9th
\* value of group g is odd exactly when g = n.
C6_TerminationFlag ==
  output_file # NoImage
    => \A g \in 1..Len(text) :
          (Flag(output_file.data, g) % 2 = 1) <=> (g = Len(text))

C6_Witness ==
  /\ output_file # NoImage
  /\ Len(text) = 2
  /\ Flag(input_file.data, 1) % 2 = 1
  /\ Flag(input_file.data, 2) % 2 = 0
  /\ Flag(output_file.data, 1) % 2 = 0
  /\ Flag(output_file.data, 2) % 2 = 1

\* C7: when the pixel data has no complete group with an odd 9th value,
\* decode raises the end-of-data error and returns nothing.
C7_TruncatedCarrier ==
  (DecodeEnded /\ OddGroups(file_at(path).data) = {})
    => (err = "truncated" /\ ~returned /\ returned_text = <<>>)

C7_Witness ==
  /\ DecodeEnded /\ OddGroups(file_at(path).data) = {}
  /\ Len(file_at(path).data) = 4
  /\ Len(decoded_text) = 1
  /\ err = "truncated"

\* C8: a successful encode writes an image of the size of the input whose
\* pixels from index 3*n on equal the input's, and while encode runs the
\* opened image and the pixel list it reads stay equal to the input.
C8_EncodeFrame ==
  /\ output_file # NoImage
       => /\ Len(output_file.data) = Len(input_file.data)
          /\ output_file.w = input_file.w /\ output_file.h = input_file.h
          /\ \A i \in (3 * Len(text) + 1)..Len(input_file.data) :
                output_file.data[i] = input_file.data[i]
  /\ (command = "encode" /\ pc \in {"encoding", "returned"} /\ image # NoImage)
       => (image = input_file /\ pixels = input_file.data)

C8_Witness ==
  /\ output_file # NoImage
  /\ Len(text) = 1
  /\ Len(input_file.data) = 4
  /\ input_file.w = 2
  /\ output_file.data[1] # input_file.data[1]
  /\ output_file.data[3] # input_file.data[3]

\* C9: when group k is the first complete group with an odd 9th value,
\* decode returns k characters, character i being the code point read
\* most significant bit first from the parities of the first 8 values of
\* group i; nothing after group k enters the result.
C9_DecodeFirstOdd ==
  (DecodeEnded /\ OddGroups(file_at(path).data) # {})
    => LET d == file_at(path).data
           k == FirstOddGroup(d)
       IN /\ err = "none" /\ returned
          /\ Len(returned_text) = k
          /\ \A i \in 1..k : returned_text[i] = GroupCode(d, i)

C9_Witness ==
  /\ DecodeEnded /\ path = "input" /\ returned
  /\ Len(pixels) = 6
  /\ FirstOddGroup(pixels) = 1
  /\ Len(returned_text) = 1
  /\ returned_text[1] = 170

\* C10: for v in 0..255 and a bit b, encode_bit_in_value(v, b) is in 0..255,
\* is at most 1 away from v and extract_bit_from_value reads b from it.
C10_BitEmbedding ==
  applied
    => /\ out \in 0..255
       /\ out - v \in {-1, 0, 1}
       /\ out_bit = bit

C10_Witness == applied /\ v = 254 /\ bit = "1" /\ out = 255

====
